---- MODULE Spec2Model ----
(***************************************************************************)
(* A model of clio's application lifecycle (src/application.go): binding   *)
(* Setup and Run onto a cobra command, the Setup phase (configuration      *)
(* load, resource construction, initializer chain, the two log records),   *)
(* and the Run phase (the async bridge goroutine and the event loop).      *)
(*                                                                         *)
(* One behaviour is one process: a command is bound one or more times and  *)
(* then executed once by cobra (PreRunE, then RunE).                       *)
(***************************************************************************)
EXTENDS Naturals, Sequences, FiniteSets

\* ------------------------------------------------------------------ bounds
\* Most SetupCommand/SetupRootCommand calls made on the command.
MaxBind == 2
\* Most caller-supplied configuration objects over all binding calls.
MaxCfgs == 2
\* Number of registered Initializers (setupConfig.Initializers).
NumInits == 2
\* Most bus events delivered to the event loops of one process.
MaxEvents == 1

\* ------------------------------------------------------------------ values
\* An error is a sequence of strings; the nil error is the empty sequence.
Nil == <<>>
Errs == {<<"e1">>, <<"e2">>}
CtxErr == <<"context canceled">>
\* A result that has not been produced yet.
Pending == <<"pending">>

\* Configuration objects a caller may supply: the nil interface value, an
\* object without a PostLoad method, an object with one.
NilCfg == "nil"
CfgPool == {NilCfg, "plain", "hooked"}
CoreCfg == "core"
AppCfg == "app"

\* state.Config.Dev as the loader leaves it: a nil pointer, or a Profile of
\* none of the modes, ProfileCPU, ProfileMem.
DevValues == {"nil", "none", "cpu", "mem"}
\* setupConfig.DefaultDevelopmentConfig: a development configuration that
\* asks for no profiling.
DefaultDevelopmentConfig == "none"
\* setupConfig.DefaultLoggingConfig, and what a.state.Config.Log may hold
\* besides: a nil pointer, a changed level, what the loader has filled in.
DefaultLoggingConfig == "info"

\* Most post-construct hooks registered in the setupConfig.
MaxPostConstructs == 2
\* What a post-construct hook does to the application it is given: it sets
\* a.state.Config.Dev.Profile, or the level of a.state.Config.Log.
HookPool == {"profileCPU", "profileMem", "logDebug"}

RECURSIVE SeqsUpTo(_, _)
SeqsUpTo(S, n) ==
    IF n = 0 THEN {<<>>}
    ELSE LET shorter == SeqsUpTo(S, n - 1)
         IN shorter \cup {Append(s, x) : s \in {t \in shorter : Len(t) = n - 1}, x \in S}

RECURSIVE SumLen(_)
SumLen(ss) == IF ss = <<>> THEN 0 ELSE Len(Head(ss)) + SumLen(Tail(ss))

\* ------------------------------------------------ logConfiguration's values
\* Most objects in one call of logConfiguration followed on its own.
MaxLogCfgs == 2

\* A string is the sequence of its characters.
Str(kind, text) == [kind |-> kind, text |-> text]
\* Objects logConfiguration may be given (besides the nil interface value): a
\* fmt.Stringer with the string it returns, an object with the YAML it marshals
\* to, an object whose marshalling fails with the text of the failure.
LogCfgPool == {
    Str("stringer", <<>>),
    Str("stringer", <<" ", "\n">>),
    Str("yaml", <<"{", "}", "\n">>),
    Str("stringer", <<" ", "{", "}", " ">>),
    Str("stringer", <<"{", " ", "}">>),
    Str("yaml", <<"a", "\n">>),
    Str("yaml", <<"a", "\n", " ", "b", "\n">>),
    Str("yamlerr", <<"e">>) }
\* The logger has received nothing.
NoRecord == [level |-> "none", msg |-> <<>>]

VARIABLES
    preRunE,     \* cmd.PreRunE: the user's hook (or none) under the bound Setup layers
    runE,        \* cmd.RunE: number of Run wrappers around the command body
    pc,          \* position of the invoking (main) thread
    layer,       \* the composed hook being executed: index into preRunE.layers
    args,        \* the arguments cobra passes to the hooks
    allConfigs,  \* loadConfigs: the target list handed to fangs.Load
    li,          \* fangs.Load: index of the target being processed
    hooked,      \* indices of allConfigs whose post-load hook has run in this Setup
    ii,          \* runInitializers: index of the next initializer
    dev,         \* a.state.Config.Dev
    resources,   \* a.state.Logger, Bus, ... constructed by state.setup
    logs,        \* records the logger has received, each tagged with its Setup layer
    loadRet,     \* per layer: what loadConfigs returned
    setupRet,    \* per layer: what the function made by Setup returned
    postLoadRet, \* per layer: what application.PostLoad returned
    initRan,     \* initializers executed in the current Setup, in order
    initFail,    \* position of the first failing initializer of the current Setup, or 0
    initCount,   \* per initializer: executions in this process
    loadCount,   \* calls of fangs.Load in this process
    setupCount,  \* calls of state.setup in this process
    origRan,     \* calls of the user's original hook: its arguments and result
    preRet,      \* what cmd.PreRunE returned to cobra
    result,      \* what cobra's execution of the command returned
    drv,         \* per Run wrapper: position of the thread inside Run/run
    drvRet,      \* per Run wrapper: what the function made by Run returned
    gor,         \* per Run wrapper: position of the goroutine async started
    fRet,        \* per Run wrapper: what the function given to async returned
    chanLog,     \* per Run wrapper: the sends and closes done on its errs channel
    retErr,      \* per Run wrapper: the failure the event loop has received
    prof,        \* per Run wrapper: its profiling session
    cancelled,   \* cmd.Context() is cancelled
    events,      \* bus events delivered so far
    bodyStarts,  \* invocations of the command body
    bodyOutlived,\* the command body returned after the driver of its wrapper had
    panic,       \* the process: "no" panic, "panicking" in the body goroutine, "crashed"
    loaderRet,   \* per layer: what fangs.Load returned to loadConfigs
    stateRet,    \* per layer: what state.setup returned to PostLoad
    logCfgs,     \* logConfiguration: the objects it is called with
    logRecord,   \* logConfiguration: the record it has emitted
    setupConfig, \* a.setupConfig: what its default pointers point to, its post-construct hooks
    stateLog,    \* a.state.Config.Log
    shared,      \* fields of a.state.Config holding the very pointer of the defaults
    rootLog      \* the steps of the SetupRootCommand call, in the order taken

setupVars == <<allConfigs, li, hooked, ii, dev, resources, logs, loadRet, setupRet,
               postLoadRet, initRan, initFail, initCount, loadCount, setupCount>>
cmdVars == <<preRunE, runE>>
runVars == <<drv, drvRet, gor, fRet, chanLog, retErr, prof, cancelled, events, bodyStarts>>
vars == <<preRunE, runE, pc, layer, args, allConfigs, li, hooked, ii, dev, resources,
          logs, loadRet, setupRet, postLoadRet, initRan, initFail, initCount,
          loadCount, setupCount, origRan, preRet, result, drv, drvRet, gor, fRet,
          chanLog, retErr, prof, cancelled, events, bodyStarts, bodyOutlived, panic, loaderRet, stateRet, logCfgs, logRecord, setupConfig, stateLog, shared, rootLog>>

Layers == 1..MaxBind
Inits == 1..NumInits
ArgValues == {"a", "b"}

\* The application New returns, and the command before any binding.
AppInit ==
    /\ preRunE \in [orig : BOOLEAN, layers : {<<>>}]
    /\ runE = 0
    /\ pc = "bind"
    /\ layer = 0
    /\ args = "a"
    /\ allConfigs = <<>>
    /\ li = 0
    /\ hooked = {}
    /\ ii = 0
    /\ dev = "nil"
    /\ resources = FALSE
    /\ logs = <<>>
    /\ loadRet = [l \in Layers |-> Pending]
    /\ setupRet = [l \in Layers |-> Pending]
    /\ postLoadRet = [l \in Layers |-> Pending]
    /\ initRan = <<>>
    /\ initFail = 0
    /\ initCount = [i \in Inits |-> 0]
    /\ loadCount = 0
    /\ setupCount = 0
    /\ origRan = <<>>
    /\ preRet = Pending
    /\ result = Pending
    /\ drv = [k \in Layers |-> "idle"]
    /\ drvRet = [k \in Layers |-> Pending]
    /\ gor = [k \in Layers |-> "none"]
    /\ fRet = [k \in Layers |-> Pending]
    /\ chanLog = [k \in Layers |-> <<>>]
    /\ retErr = [k \in Layers |-> Nil]
    /\ prof = [k \in Layers |-> "off"]
    /\ cancelled = FALSE
    /\ events = 0
    /\ bodyStarts = 0
    /\ bodyOutlived = FALSE
    /\ panic = "no"
    /\ loaderRet = [l \in Layers |-> Pending]
    /\ stateRet = [l \in Layers |-> Pending]
    /\ setupConfig = [DefaultLoggingConfig |-> DefaultLoggingConfig,
                      DefaultDevelopmentConfig |-> DefaultDevelopmentConfig,
                      postConstructs |-> <<>>]
    /\ stateLog = "nil"
    /\ shared = {}
    /\ rootLog = <<>>

\* No call of logConfiguration is followed on its own.
Init ==
    /\ AppInit
    /\ logCfgs = <<>>
    /\ logRecord = NoRecord

\* ------------------------------------------------------------- pure parts

\* nonNil: the non-nil elements, in order.
RECURSIVE nonNil(_)
nonNil(a) ==
    IF a = <<>> THEN <<>>
    ELSE IF Head(a) # NilCfg THEN <<Head(a)>> \o nonNil(Tail(a))
    ELSE nonNil(Tail(a))

\* loadConfigs appending the application after the caller's objects.
TargetList_AppLast(withResources, cfgs) ==
    nonNil(<<CoreCfg>> \o cfgs \o (IF withResources THEN <<AppCfg>> ELSE <<>>))

\* loadConfigs, lines 79-84: the core config, the application, the caller's.
TargetList(withResources, cfgs) ==
    nonNil(<<CoreCfg>> \o (IF withResources THEN <<AppCfg>> ELSE <<>>) \o cfgs)

\* loadConfigs handing the loader's failure on as it is.
LoadConfigsResult_NoPrefix(err) == err

\* loadConfigs, lines 86-89: a loader failure is reformatted under a prefix.
LoadConfigsResult(err) ==
    IF err # Nil THEN <<"invalid application config: ">> \o err ELSE Nil

\* Setup with the two records emitted before the configuration is loaded.
SetupNext_LogFirst(at, err) ==
    CASE at = "enter" -> "logVersion"
      [] at = "logVersion" -> "logConfig"
      [] at = "logConfig" -> "loadConfigs"
      [] at = "loadConfigs" -> "return"

\* Setup without the early return on a load failure.
SetupNext_NoEarlyReturn(at, err) ==
    CASE at = "enter" -> "loadConfigs"
      [] at = "loadConfigs" -> "logVersion"
      [] at = "logVersion" -> "logConfig"
      [] at = "logConfig" -> "return"

\* Setup's body, lines 64-74, as the step that follows each of its steps.
SetupNext(at, err) ==
    CASE at = "enter" -> "loadConfigs"
      [] at = "loadConfigs" -> IF err # Nil THEN "return" ELSE "logVersion"
      [] at = "logVersion" -> "logConfig"
      [] at = "logConfig" -> "return"

\* The composed hook going on to the wrapped hook whatever Setup returned.
ComposedHookNext_IgnoreErr(err, hasOriginal) ==
    IF hasOriginal THEN "original" ELSE "return"

\* The composed hook replacing the hook that was there instead of wrapping it.
ComposedHookNext_DropOriginal(err, hasOriginal) == "return"

\* The hook composed by setupCommand, lines 228-237, after Setup returned err.
ComposedHookNext(err, hasOriginal) ==
    IF err # Nil THEN "return"
    ELSE IF hasOriginal THEN "original"
    ELSE "return"

\* PostLoad running the initializers whatever state.setup returned.
PostLoadNext_IgnoreSetupErr(err) == "runInitializers"

\* PostLoad, lines 93-96: what follows state.setup returning err.
PostLoadNext(err) ==
    IF err # Nil THEN "return" ELSE "runInitializers"

\* runInitializers not returning at a failure.
RunInitializersNext_KeepGoing(err) == "next"

\* runInitializers, lines 100-105: what follows an initializer returning err.
RunInitializersNext(err) ==
    IF err # Nil THEN "return" ELSE "next"


\* The goroutine sending whatever the function returned, nil included.
AsyncNext_AlwaysSend(at, err) ==
    CASE at = "f" -> "send"
      [] at = "send" -> "close"
      [] at = "close" -> "exited"

\* The goroutine closing the channel without sending the failure.
AsyncNext_NeverSend(at, err) ==
    CASE at = "f" -> "close"
      [] at = "send" -> "close"
      [] at = "close" -> "exited"

\* The goroutine without the deferred close: it ends after a nil result.
AsyncNext_NoClose(at, err) ==
    CASE at = "f" -> IF err # Nil THEN "send" ELSE "exited"
      [] at = "send" -> "exited"
      [] at = "close" -> "exited"

\* The goroutine of async, lines 271-276, as the step that follows each of its
\* steps: the function returns err, the send, the deferred close.
AsyncNext(at, err) ==
    CASE at = "f" -> IF err # Nil THEN "send" ELSE "close"
      [] at = "send" -> "close"
      [] at = "close" -> "exited"

\* run, lines 115-122: the profiling session the development configuration
\* asks for.
ProfileSession(d) ==
    IF d = "nil" THEN "off"
    ELSE IF d = "cpu" \/ d = "mem" THEN "started"
    ELSE "off"

\* ------------------------------------------------------------ the binding

CfgLists == SeqsUpTo(CfgPool, MaxCfgs)

\* setupCommand, lines 226-251: the hook becomes "Setup(cfgs), then the hook
\* that was there", and RunE (non-nil: the command has a body) is wrapped by Run.
setupCommand(cfgs) ==
    /\ preRunE' = [preRunE EXCEPT !.layers = Append(@, cfgs)]
    /\ runE' = runE + 1

CanBind(cfgs) ==
    /\ pc = "bind"
    /\ Len(preRunE.layers) < MaxBind
    /\ SumLen(preRunE.layers) + Len(cfgs) <= MaxCfgs

\* SetupCommand, lines 188-190.
SetupCommand(cfgs) ==
    /\ CanBind(cfgs)
    /\ setupCommand(cfgs)
    /\ UNCHANGED <<pc, layer, args, setupVars, origRan, preRet, result>>
    /\ UNCHANGED <<runVars, bodyOutlived, panic, loaderRet, stateRet, logCfgs, logRecord,
                   setupConfig, stateLog, shared, rootLog>>

\* A pointer is the address it holds and what stands there; the defaults of
\* the setupConfig stand at one address each.
Ptr(addr, val) == [addr |-> addr, val |-> val]
DefaultPtr(val) == IF val = "nil" THEN Ptr("nil", "nil") ELSE Ptr("default", val)

\* The pointer itself handed on instead of a pointer to a copy.
cp_SamePointer(value) == value

\* cp, lines 217-224: a nil pointer stays nil, anything else is copied to a
\* new address.
cp(value) == IF value.addr = "nil" THEN value ELSE Ptr("copy", value.val)

\* setupRootCommand, lines 207-214: the steps of the call in their order.
SetupRootSteps(hooks) ==
    <<[op |-> "cp", hook |-> "none"]>>
    \o [i \in 1..Len(hooks) |-> [op |-> "postConstruct", hook |-> hooks[i]]]
    \o <<[op |-> "setupCommand", hook |-> "none"]>>

\* A write through a.state.Config.Dev or .Log: it reaches the default too when
\* the field holds the default's own pointer. A nil pointer is left alone.
WriteDev(st, v) ==
    IF st.dev = "nil" THEN st
    ELSE [st EXCEPT !.dev = v,
                    !.cfg.DefaultDevelopmentConfig = IF "dev" \in st.shared THEN v ELSE @]

WriteLog(st, v) ==
    IF st.log = "nil" THEN st
    ELSE [st EXCEPT !.log = v,
                    !.cfg.DefaultLoggingConfig = IF "log" \in st.shared THEN v ELSE @]

\* One step of setupRootCommand on the configuration of State and setupConfig:
\* lines 207-208, or one hook of the loop at lines 210-212.
RootStep(st, step) ==
    CASE step.op = "cp" ->
            LET l == cp(DefaultPtr(st.cfg.DefaultLoggingConfig))
                d == cp(DefaultPtr(st.cfg.DefaultDevelopmentConfig))
            IN [st EXCEPT !.log = l.val,
                          !.dev = d.val,
                          !.shared = (IF l.addr = "default" THEN {"log"} ELSE {})
                                       \cup (IF d.addr = "default" THEN {"dev"} ELSE {})]
      [] step.op = "postConstruct" ->
            (CASE step.hook = "profileCPU" -> WriteDev(st, "cpu")
               [] step.hook = "profileMem" -> WriteDev(st, "mem")
               [] step.hook = "logDebug" -> WriteLog(st, "debug"))
      [] step.op = "setupCommand" -> st

RECURSIVE RootSteps(_, _)
RootSteps(st, steps) ==
    IF steps = <<>> THEN st ELSE RootSteps(RootStep(st, Head(steps)), Tail(steps))

HookLists == SeqsUpTo(HookPool, MaxPostConstructs)

\* SetupRootCommand, lines 192-215: the defaults are copied into State, the
\* post-construct hooks of the setupConfig run, then the command is bound as
\* any other. The hooks are those registered when the application was made:
\* a second call finds the same ones.
SetupRootCommand(cfgs) ==
    /\ CanBind(cfgs)
    /\ \E hooks \in HookLists :
          /\ rootLog # <<>> => hooks = setupConfig.postConstructs
          /\ LET st == RootSteps([dev |-> dev, log |-> stateLog, shared |-> shared,
                                  cfg |-> [setupConfig EXCEPT !.postConstructs = hooks]],
                                 SetupRootSteps(hooks))
             IN /\ dev' = st.dev
                /\ stateLog' = st.log
                /\ shared' = st.shared
                /\ setupConfig' = st.cfg
          /\ rootLog' = SetupRootSteps(hooks)
    /\ setupCommand(cfgs)
    /\ UNCHANGED <<pc, layer, args, allConfigs, li, hooked, ii, resources, logs,
                   loadRet, setupRet, postLoadRet, initRan, initFail, initCount,
                   loadCount, setupCount, origRan, preRet, result>>
    /\ UNCHANGED <<runVars, bodyOutlived, panic, loaderRet, stateRet, logCfgs, logRecord>>

\* ------------------------------------------------- cobra runs the command

\* The captured configuration lists, forgotten: cobra calls the hooks of a
\* command once per process, so nothing reads them after PreRunE returned nil.
Forget(hook) == [hook EXCEPT !.layers = [l \in DOMAIN @ |-> <<>>]]

\* cobra got the hook's result v: a failure ends the execution, success
\* lets it go on to RunE.
PreRunEReturns(v) ==
    /\ preRet' = v
    /\ IF v # Nil
       THEN pc' = "done" /\ result' = v /\ UNCHANGED preRunE
       ELSE pc' = "runE" /\ preRunE' = Forget(preRunE) /\ UNCHANGED result

\* The function made by Setup returned v to the composed hook of this layer
\* (lines 229-236): the hook returns the failure, or calls the hook it wrapped.
\* Setup's locals end with a Setup that succeeded.
SetupReturns(v) ==
    /\ setupRet' = [setupRet EXCEPT ![layer] = v]
    /\ IF v = Nil
       THEN allConfigs' = <<>> /\ li' = 0 /\ hooked' = {}
       ELSE UNCHANGED <<allConfigs, li, hooked>>
    /\ IF ComposedHookNext(v, layer > 1 \/ preRunE.orig) = "original"
       THEN IF layer > 1
            THEN /\ layer' = layer - 1
                 /\ pc' = SetupNext("enter", Nil)
                 /\ UNCHANGED <<preRunE, preRet, result>>
            ELSE /\ pc' = "original"
                 /\ UNCHANGED <<preRunE, layer, preRet, result>>
       ELSE PreRunEReturns(v) /\ UNCHANGED layer

\* What Setup's return decides.
ctl == <<preRunE, pc, layer, setupRet, preRet, result, allConfigs, li, hooked>>

\* Setup moves on to its step `next`, or returns v.
SetupGoto(next, v) ==
    IF next = "return"
    THEN SetupReturns(v)
    ELSE pc' = next
         /\ UNCHANGED <<preRunE, layer, setupRet, preRet, result, allConfigs, li, hooked>>

\* cobra starts executing the bound command: it calls cmd.PreRunE, whose
\* outermost layer is the hook bound last.
\* The binding is over: nothing reads the post-construct hooks or the steps
\* of the binding calls any more, and they are forgotten.
Execute(a) ==
    /\ pc = "bind"
    /\ Len(preRunE.layers) >= 1
    /\ args' = a
    /\ layer' = Len(preRunE.layers)
    /\ pc' = SetupNext("enter", Nil)
    /\ setupConfig' = [setupConfig EXCEPT !.postConstructs = <<>>]
    /\ rootLog' = <<>>
    /\ UNCHANGED <<cmdVars, setupVars, origRan, preRet, result>>
    /\ UNCHANGED <<runVars, bodyOutlived, panic, loaderRet, stateRet, logCfgs, logRecord,
                   stateLog, shared>>

\* --------------------------------------------------------------- Setup

\* loadConfigs, lines 78-86: build the target list and call fangs.Load.
LoadConfigs ==
    /\ pc = "loadConfigs"
    /\ allConfigs' = TargetList(TRUE, preRunE.layers[layer])
    /\ li' = 1
    /\ hooked' = {}
    /\ loadCount' = loadCount + 1
    /\ pc' = "load"
    /\ UNCHANGED <<cmdVars, layer, args, ii, dev, resources, logs, loadRet, setupRet,
                   postLoadRet, initRan, initFail, initCount, setupCount, origRan,
                   preRet, result>>
    /\ UNCHANGED <<runVars, bodyOutlived, panic, loaderRet, stateRet, logCfgs, logRecord,
                   setupConfig, stateLog, shared, rootLog>>

\* Whether a target has a post-load hook.
HasPostLoad(t) == t # "plain"

\* fangs.Load returned err to loadConfigs (lines 86-89), which returns to Setup
\* (lines 64-67).
LoadReturns(err) ==
    /\ loaderRet' = [loaderRet EXCEPT ![layer] = err]
    /\ loadRet' = [loadRet EXCEPT ![layer] = LoadConfigsResult(err)]
    /\ SetupGoto(SetupNext("loadConfigs", LoadConfigsResult(err)), LoadConfigsResult(err))

\* fangs.Load on a target other than the application: its fields are
\* populated (the core config receives Log and Dev, written through the
\* pointers State holds; a Dev that is set stays set), then its post-load hook
\* runs.
LoadTarget(d) ==
    /\ pc = "load"
    /\ li <= Len(allConfigs)
    /\ allConfigs[li] # AppCfg
    /\ dev' = d
    /\ IF allConfigs[li] = CoreCfg THEN dev = "nil" \/ d # "nil" ELSE d = dev
    /\ stateLog' = IF allConfigs[li] = CoreCfg THEN "loaded" ELSE stateLog
    /\ setupConfig' =
          IF allConfigs[li] = CoreCfg
          THEN [setupConfig EXCEPT
                  !.DefaultDevelopmentConfig = IF "dev" \in shared THEN d ELSE @,
                  !.DefaultLoggingConfig = IF "log" \in shared THEN "loaded" ELSE @]
          ELSE setupConfig
    /\ hooked' = IF HasPostLoad(allConfigs[li]) THEN hooked \cup {li} ELSE hooked
    /\ li' = li + 1
    /\ UNCHANGED <<cmdVars, pc, layer, args, allConfigs, ii, resources, logs, loadRet,
                   setupRet, postLoadRet, initRan, initFail, initCount, loadCount,
                   setupCount, origRan, preRet, result>>
    /\ UNCHANGED <<runVars, bodyOutlived, panic, loaderRet, stateRet, logCfgs, logRecord,
                   shared, rootLog>>

\* fangs.Load fails on a target other than the application (a malformed
\* source, a failing post-load hook) and returns the failure.
LoadTargetFails(e) ==
    /\ pc = "load"
    /\ li <= Len(allConfigs)
    /\ allConfigs[li] # AppCfg
    /\ LoadReturns(e)
    /\ UNCHANGED <<runE, args, ii, dev, resources, logs, postLoadRet, initRan,
                   initFail, initCount, loadCount, setupCount, origRan>>
    /\ UNCHANGED <<runVars, bodyOutlived, panic, stateRet, logCfgs, logRecord, setupConfig,
                   stateLog, shared, rootLog>>

\* fangs.Load reaches the application and calls its PostLoad.
LoadApplication ==
    /\ pc = "load"
    /\ li <= Len(allConfigs)
    /\ allConfigs[li] = AppCfg
    /\ pc' = "postLoad"
    /\ UNCHANGED <<cmdVars, layer, args, setupVars, origRan, preRet, result>>
    /\ UNCHANGED <<runVars, bodyOutlived, panic, loaderRet, stateRet, logCfgs, logRecord,
                   setupConfig, stateLog, shared, rootLog>>

\* PostLoad returned err (lines 92-97) to fangs.Load, which propagates a failure
\* and otherwise goes on to the next target.
PostLoadReturns(err) ==
    /\ postLoadRet' = [postLoadRet EXCEPT ![layer] = err]
    /\ IF err # Nil
       THEN LoadReturns(err)
       ELSE /\ hooked' = hooked \cup {li}
            /\ li' = li + 1
            /\ pc' = "load"
            /\ UNCHANGED <<preRunE, layer, allConfigs, loaderRet, loadRet, setupRet, preRet,
                           result>>

\* PostLoad, lines 93-96: state.setup constructs the resources, or fails and
\* leaves them as they were; no initializer of this PostLoad has run yet.
StateSetup(err) ==
    /\ pc = "postLoad"
    /\ setupCount' = setupCount + 1
    /\ stateRet' = [stateRet EXCEPT ![layer] = err]
    /\ resources' = IF err = Nil THEN TRUE ELSE resources
    /\ initRan' = <<>>
    /\ initFail' = 0
    /\ IF PostLoadNext(err) = "return"
       THEN /\ PostLoadReturns(err)
            /\ UNCHANGED ii
       ELSE /\ ii' = 1
            /\ pc' = "inits"
            /\ UNCHANGED <<preRunE, layer, allConfigs, li, hooked, loaderRet, loadRet,
                           setupRet, postLoadRet, preRet, result>>
    /\ UNCHANGED <<runE, args, dev, logs, initCount, loadCount, origRan>>
    /\ UNCHANGED <<runVars, bodyOutlived, panic, logCfgs, logRecord, setupConfig, stateLog,
                   shared, rootLog>>

\* runInitializers, lines 100-104: the next initializer runs and returns err.
RunInitializer(err) ==
    /\ pc = "inits"
    /\ ii <= NumInits
    /\ initRan' = Append(initRan, ii)
    /\ initCount' = [initCount EXCEPT ![ii] = @ + 1]
    /\ initFail' = IF err # Nil /\ initFail = 0 THEN ii ELSE initFail
    /\ IF RunInitializersNext(err) = "return"
       THEN PostLoadReturns(err) /\ UNCHANGED ii
       ELSE /\ ii' = ii + 1
            /\ UNCHANGED <<ctl, loaderRet, loadRet, postLoadRet>>
    /\ UNCHANGED <<runE, args, dev, resources, logs, loadCount, setupCount, origRan>>
    /\ UNCHANGED <<runVars, bodyOutlived, panic, stateRet, logCfgs, logRecord, setupConfig,
                   stateLog, shared, rootLog>>

\* runInitializers, line 105: the chain is exhausted; PostLoad returns nil.
InitializersDone ==
    /\ pc = "inits"
    /\ ii > NumInits
    /\ PostLoadReturns(Nil)
    /\ UNCHANGED <<runE, args, ii, dev, resources, logs, initRan, initFail, initCount,
                   loadCount, setupCount, origRan>>
    /\ UNCHANGED <<runVars, bodyOutlived, panic, stateRet, logCfgs, logRecord, setupConfig,
                   stateLog, shared, rootLog>>

\* fangs.Load has processed every target and returns nil.
LoadDone ==
    /\ pc = "load"
    /\ li > Len(allConfigs)
    /\ LoadReturns(Nil)
    /\ UNCHANGED <<runE, args, ii, dev, resources, logs, postLoadRet, initRan,
                   initFail, initCount, loadCount, setupCount, origRan>>
    /\ UNCHANGED <<runVars, bodyOutlived, panic, stateRet, logCfgs, logRecord, setupConfig,
                   stateLog, shared, rootLog>>

\* Setup, line 70: logVersion emits one record.
LogVersion ==
    /\ pc = "logVersion"
    /\ logs' = Append(logs, [layer |-> layer, rec |-> "version"])
    /\ SetupGoto(SetupNext("logVersion", Nil), Nil)
    /\ UNCHANGED <<runE, args, ii, dev, resources, loadRet, postLoadRet, initRan,
                   initFail, initCount, loadCount, setupCount, origRan>>
    /\ UNCHANGED <<runVars, bodyOutlived, panic, loaderRet, stateRet, logCfgs, logRecord,
                   setupConfig, stateLog, shared, rootLog>>

\* Setup, lines 72-74: logConfiguration emits one record; Setup returns nil.
LogConfiguration ==
    /\ pc = "logConfig"
    /\ logs' = Append(logs, [layer |-> layer, rec |-> "config"])
    /\ SetupGoto(SetupNext("logConfig", Nil), Nil)
    /\ UNCHANGED <<runE, args, ii, dev, resources, loadRet, postLoadRet, initRan,
                   initFail, initCount, loadCount, setupCount, origRan>>
    /\ UNCHANGED <<runVars, bodyOutlived, panic, loaderRet, stateRet, logCfgs, logRecord,
                   setupConfig, stateLog, shared, rootLog>>

\* setupCommand, line 234: the hook the command had before the first binding
\* runs with the arguments the composed hook received; its result is returned.
OriginalHook(r) ==
    /\ pc = "original"
    /\ origRan' = Append(origRan, [args |-> args, ret |-> r])
    /\ PreRunEReturns(r)
    /\ UNCHANGED <<runE, layer, args, setupVars>>
    /\ UNCHANGED <<runVars, bodyOutlived, panic, loaderRet, stateRet, logCfgs, logRecord,
                   setupConfig, stateLog, shared, rootLog>>

\* ----------------------------------------------------------------- Run
\* Run wrapper k (1 is the innermost, around the command body) is executed by
\* cobra's thread when it is the outermost, and otherwise by the goroutine of
\* wrapper k + 1, whose function it is.

\* An unrecovered panic ends the process, whatever its goroutines are doing.
Alive == panic # "crashed"

Closed(k) == chanLog[k] # <<>> /\ chanLog[k][Len(chanLog[k])].op = "close"

\* The function made by Run, line 110: async makes the channel and starts
\* the goroutine (lines 270-277), then run is entered.
RunCall(k) ==
    /\ Alive
    /\ k <= runE
    /\ drv[k] = "idle"
    /\ IF k = runE
       THEN pc = "runE" /\ pc' = "run" /\ gor' = [gor EXCEPT ![k] = "spawned"]
       ELSE /\ gor[k + 1] = "spawned"
            /\ gor' = [gor EXCEPT ![k] = "spawned", ![k + 1] = "f"]
            /\ UNCHANGED pc
    /\ drv' = [drv EXCEPT ![k] = "run"]
    /\ UNCHANGED <<cmdVars, layer, args, setupVars, origRan, preRet, result, drvRet,
                   fRet, chanLog, retErr, prof, cancelled, events, bodyStarts>>
    /\ UNCHANGED <<bodyOutlived, panic, loaderRet, stateRet, logCfgs, logRecord,
                   setupConfig, stateLog, shared, rootLog>>

\* run, lines 115-129: the fields of a.state it reads, the arguments of the
\* eventloop call included.
RunReads == {"Config.Dev", "Logger", "Subscription", "UIs"}

\* What the thread of wrapper k is about to read of a.state: run reads when it
\* is entered, after async has started the goroutine (line 110); eventloop
\* works on the values it was given.
DriverReads(k) == IF drv[k] = "run" THEN RunReads ELSE {}

\* run, lines 115-124: start the profiling session, if any, and enter eventloop.
RunProfile(k) ==
    /\ Alive
    /\ drv[k] = "run"
    /\ prof' = [prof EXCEPT ![k] = ProfileSession(dev)]
    /\ drv' = [drv EXCEPT ![k] = "eventloop"]
    /\ UNCHANGED <<cmdVars, pc, layer, args, setupVars, origRan, preRet, result, drvRet,
                   gor, fRet, chanLog, retErr, cancelled, events, bodyStarts>>
    /\ UNCHANGED <<bodyOutlived, panic, loaderRet, stateRet, logCfgs, logRecord,
                   setupConfig, stateLog, shared, rootLog>>

\* run taking the goroutine of its own wrapper down when it returns.
RunReturns_Interrupt(k, v) ==
    /\ prof' = [prof EXCEPT ![k] = IF @ = "started" THEN "stopped" ELSE @]
    /\ drv' = [drv EXCEPT ![k] = "returned"]
    /\ drvRet' = [drvRet EXCEPT ![k] = v]
    /\ IF k = runE
       THEN /\ pc' = "done" /\ result' = v /\ UNCHANGED fRet
            /\ gor' = [gor EXCEPT ![k] = IF @ \in {"spawned", "f"} THEN "exited" ELSE @]
       ELSE /\ fRet' = [fRet EXCEPT ![k + 1] = v]
            /\ gor' = [gor EXCEPT ![k] = IF @ \in {"spawned", "f"} THEN "exited" ELSE @,
                                  ![k + 1] = AsyncNext("f", v)]
            /\ UNCHANGED <<pc, result>>

\* run returns v (line 124): the deferred Stop of a started session runs, and
\* the caller of the function made by Run gets v: cobra, or the goroutine of
\* the wrapper around this one (line 273).
RunReturns(k, v) ==
    /\ prof' = [prof EXCEPT ![k] = IF @ = "started" THEN "stopped" ELSE @]
    /\ drv' = [drv EXCEPT ![k] = "returned"]
    /\ drvRet' = [drvRet EXCEPT ![k] = v]
    /\ IF k = runE
       THEN pc' = "done" /\ result' = v /\ UNCHANGED <<fRet, gor>>
       ELSE /\ fRet' = [fRet EXCEPT ![k + 1] = v]
            /\ gor' = [gor EXCEPT ![k + 1] = AsyncNext("f", v)]
            /\ UNCHANGED <<pc, result>>

\* async, line 273: the goroutine of the innermost wrapper calls the body.
BodyStart ==
    /\ gor[1] = "spawned"
    /\ gor' = [gor EXCEPT ![1] = "f"]
    /\ bodyStarts' = bodyStarts + 1
    /\ UNCHANGED <<cmdVars, pc, layer, args, setupVars, origRan, preRet, result, drv,
                   drvRet, fRet, chanLog, retErr, prof, cancelled, events>>
    /\ UNCHANGED <<bodyOutlived, panic, loaderRet, stateRet, logCfgs, logRecord,
                   setupConfig, stateLog, shared, rootLog>>

\* async, line 273: the command body returns err.
BodyReturns(err) ==
    /\ gor[1] = "f"
    /\ fRet' = [fRet EXCEPT ![1] = err]
    /\ gor' = [gor EXCEPT ![1] = AsyncNext("f", err)]
    /\ bodyOutlived' = (drv[1] = "returned")
    /\ UNCHANGED <<cmdVars, pc, layer, args, setupVars, origRan, preRet, result, drv,
                   drvRet, chanLog, retErr, prof, cancelled, events, bodyStarts>>
    /\ UNCHANGED <<panic, loaderRet, stateRet, logCfgs, logRecord, setupConfig, stateLog,
                   shared, rootLog>>

\* async, lines 272-273: the command body panics on the goroutine async
\* started, which nothing recovers: the deferred close runs while the goroutine
\* unwinds.
BodyPanics ==
    /\ gor[1] = "f"
    /\ panic = "no"
    /\ panic' = "panicking"
    /\ gor' = [gor EXCEPT ![1] = "close"]
    /\ UNCHANGED <<cmdVars, pc, layer, args, setupVars, origRan, preRet, result, drv,
                   drvRet, fRet, chanLog, retErr, prof, cancelled, events, bodyStarts,
                   bodyOutlived>>
    /\ UNCHANGED <<loaderRet, stateRet, logCfgs, logRecord, setupConfig, stateLog, shared,
                   rootLog>>

\* The goroutine has unwound and the runtime ends the process: the other
\* threads stop where they are, their deferred calls (line 118, 120) not run.
Crash ==
    /\ panic = "panicking"
    /\ gor[1] = "exited"
    /\ panic' = "crashed"
    /\ UNCHANGED <<cmdVars, pc, layer, args, setupVars, origRan, preRet, result, runVars,
                   bodyOutlived>>
    /\ UNCHANGED <<loaderRet, stateRet, logCfgs, logRecord, setupConfig, stateLog, shared,
                   rootLog>>

\* async, line 274: the send on the unbuffered channel, which completes only
\* together with a receive.
Send(k) ==
    /\ gor[k] = "send"
    /\ chanLog' = [chanLog EXCEPT ![k] = Append(@, [op |-> "send", val |-> fRet[k]])]
    /\ gor' = [gor EXCEPT ![k] = AsyncNext("send", fRet[k])]

\* async, line 272: the deferred close.
Close(k) ==
    /\ Alive
    /\ gor[k] = "close"
    /\ chanLog' = [chanLog EXCEPT ![k] = Append(@, [op |-> "close", val |-> Nil])]
    /\ gor' = [gor EXCEPT ![k] = AsyncNext("close", fRet[k])]
    /\ UNCHANGED <<cmdVars, pc, layer, args, setupVars, origRan, preRet, result, drv,
                   drvRet, fRet, retErr, prof, cancelled, events, bodyStarts>>
    /\ UNCHANGED <<bodyOutlived, panic, loaderRet, stateRet, logCfgs, logRecord,
                   setupConfig, stateLog, shared, rootLog>>

\* eventloop receives the failure sent on the outcome channel and keeps it.
EventloopReceive(k) ==
    /\ Alive
    /\ drv[k] = "eventloop"
    /\ Send(k)
    /\ retErr' = [retErr EXCEPT ![k] = fRet[k]]
    /\ UNCHANGED <<cmdVars, pc, layer, args, setupVars, origRan, preRet, result, drv,
                   drvRet, fRet, prof, cancelled, events, bodyStarts>>
    /\ UNCHANGED <<bodyOutlived, panic, loaderRet, stateRet, logCfgs, logRecord,
                   setupConfig, stateLog, shared, rootLog>>

\* eventloop finds the outcome channel closed and returns what it received.
EventloopClosed(k) ==
    /\ Alive
    /\ drv[k] = "eventloop"
    /\ Closed(k)
    /\ RunReturns(k, retErr[k])
    /\ UNCHANGED <<cmdVars, layer, args, setupVars, origRan, preRet, chanLog, retErr,
                   cancelled, events, bodyStarts>>
    /\ UNCHANGED <<bodyOutlived, panic, loaderRet, stateRet, logCfgs, logRecord,
                   setupConfig, stateLog, shared, rootLog>>

\* eventloop finds the context cancelled and returns the context's error.
EventloopCancelled(k) ==
    /\ Alive
    /\ drv[k] = "eventloop"
    /\ cancelled
    /\ RunReturns(k, CtxErr)
    /\ UNCHANGED <<cmdVars, layer, args, setupVars, origRan, preRet, chanLog, retErr,
                   cancelled, events, bodyStarts>>
    /\ UNCHANGED <<bodyOutlived, panic, loaderRet, stateRet, logCfgs, logRecord,
                   setupConfig, stateLog, shared, rootLog>>

\* eventloop takes a bus event and hands it to the UI.
EventloopEvent(k) ==
    /\ Alive
    /\ drv[k] = "eventloop"
    /\ events < MaxEvents
    /\ events' = events + 1
    /\ UNCHANGED <<cmdVars, pc, layer, args, setupVars, origRan, preRet, result, drv,
                   drvRet, gor, fRet, chanLog, retErr, prof, cancelled, bodyStarts>>
    /\ UNCHANGED <<bodyOutlived, panic, loaderRet, stateRet, logCfgs, logRecord,
                   setupConfig, stateLog, shared, rootLog>>

\* The context of the command is cancelled while cobra is in RunE.
CancelContext ==
    /\ Alive
    /\ pc \in {"runE", "run"}
    /\ ~cancelled
    /\ cancelled' = TRUE
    /\ UNCHANGED <<cmdVars, pc, layer, args, setupVars, origRan, preRet, result, drv,
                   drvRet, gor, fRet, chanLog, retErr, prof, events, bodyStarts>>
    /\ UNCHANGED <<bodyOutlived, panic, loaderRet, stateRet, logCfgs, logRecord,
                   setupConfig, stateLog, shared, rootLog>>

Next ==
    \/ \E cfgs \in CfgLists : SetupCommand(cfgs)
    \/ \E cfgs \in CfgLists : SetupRootCommand(cfgs)
    \/ \E a \in ArgValues : Execute(a)
    \/ LoadConfigs
    \/ \E d \in DevValues : LoadTarget(d)
    \/ \E e \in Errs : LoadTargetFails(e)
    \/ LoadApplication
    \/ \E err \in {Nil} \cup Errs : StateSetup(err)
    \/ \E err \in {Nil} \cup Errs : RunInitializer(err)
    \/ InitializersDone
    \/ LoadDone
    \/ LogVersion
    \/ LogConfiguration
    \/ \E r \in {Nil} \cup Errs : OriginalHook(r)
    \/ \E k \in Layers : RunCall(k)
    \/ \E k \in Layers : RunProfile(k)
    \/ BodyStart
    \/ \E err \in {Nil} \cup Errs : BodyReturns(err)
    \/ BodyPanics
    \/ Crash
    \/ \E k \in Layers : Close(k)
    \/ \E k \in Layers : EventloopReceive(k)
    \/ \E k \in Layers : EventloopClosed(k)
    \/ \E k \in Layers : EventloopCancelled(k)
    \/ \E k \in Layers : EventloopEvent(k)
    \/ CancelContext

Spec == Init /\ [][Next]_vars

\* The Go scheduler runs every goroutine that can take a step, and the runtime
\* ends a process whose panic has unwound; the command body may run forever,
\* and nobody has to cancel the context or publish events.
Fairness ==
    /\ \A k \in Layers : WF_vars(RunCall(k)) /\ WF_vars(RunProfile(k))
    /\ \A k \in Layers : WF_vars(EventloopReceive(k)) /\ WF_vars(EventloopClosed(k))
    /\ \A k \in Layers : WF_vars(EventloopCancelled(k)) /\ WF_vars(Close(k))
    /\ WF_vars(BodyStart) /\ WF_vars(Crash)

FairSpec == Spec /\ Fairness

\* ------------------------------------------------------ logConfiguration
\* logConfiguration (lines 145-181) followed on its own, on any list of objects.

LogInputs == SeqsUpTo(LogCfgPool \cup {Str("nil", <<>>)}, MaxLogCfgs)

\* unicode.IsSpace, for the characters of the pool.
IsSpace(c) == c \in {" ", "\n"}

\* strings.TrimSpace: the white space at both ends is dropped.
RECURSIVE TrimLeft(_)
TrimLeft(str) ==
    IF str # <<>> /\ IsSpace(Head(str)) THEN TrimLeft(Tail(str)) ELSE str

RECURSIVE TrimRight(_)
TrimRight(str) ==
    IF str # <<>> /\ IsSpace(str[Len(str)])
    THEN TrimRight(SubSeq(str, 1, Len(str) - 1))
    ELSE str

TrimSpace(str) == TrimRight(TrimLeft(str))

\* indent.String: the prefix goes before every line of a non-empty string.
RECURSIVE IndentRest(_, _)
IndentRest(prefix, str) ==
    IF str = <<>> THEN <<>>
    ELSE IF Head(str) = "\n" /\ Tail(str) # <<>>
    THEN <<"\n">> \o prefix \o IndentRest(prefix, Tail(str))
    ELSE <<Head(str)>> \o IndentRest(prefix, Tail(str))

IndentString(prefix, str) ==
    IF str = <<>> THEN <<>> ELSE prefix \o IndentRest(prefix, str)

\* color.Magenta.Sprint: the text between the escape sequences of the colour.
Magenta(str) == <<"ESC[35m">> \o str \o <<"ESC[0m">>

\* Lines 153-164: the string an object is rendered to.
Rendering(cfg) ==
    CASE cfg.kind = "stringer" -> cfg.text
      [] cfg.kind = "yaml" -> cfg.text
      [] cfg.kind = "yamlerr" -> cfg.text

\* A rendering of "{}" written to the builder like any other.
Contributes_EmptyOnly(str) == str # <<>>

\* Line 168: whether a trimmed rendering is written to the builder.
Contributes(str) == str # <<>> /\ str # <<"{", "}">>

\* Lines 148-171: the builder after the loop over the objects.
RECURSIVE Builder(_)
Builder(cfgs) ==
    IF cfgs = <<>> THEN <<>>
    ELSE IF Head(cfgs).kind = "nil" THEN Builder(Tail(cfgs))
    ELSE LET str == TrimSpace(Rendering(Head(cfgs)))
         IN (IF Contributes(str) THEN str \o <<"\n">> ELSE <<>>) \o Builder(Tail(cfgs))

\* Lines 173-180: the one record logConfiguration emits.
logConfiguration(cfgs) ==
    LET content == Builder(cfgs)
    IN IF content # <<>>
       THEN [level |-> "debug",
             msg |-> <<"config:", "\n">>
                       \o Magenta(IndentString(<<" ", " ">>, TrimSpace(content)))]
       ELSE [level |-> "debug", msg |-> <<"config: (none)">>]

\* A call of logConfiguration.
LogConfigurationCall ==
    /\ logRecord = NoRecord
    /\ logRecord' = logConfiguration(logCfgs)
    /\ UNCHANGED <<cmdVars, pc, layer, args, setupVars, origRan, preRet, result, runVars,
                   bodyOutlived, panic, loaderRet, stateRet, logCfgs, setupConfig,
                   stateLog, shared, rootLog>>

InitLog ==
    /\ AppInit
    /\ logCfgs \in LogInputs
    /\ logRecord = NoRecord

NextLog == LogConfigurationCall

SpecLog == InitLog /\ [][NextLog]_vars

\* ---------------------------------------------------------------- claims

Failed(v) == v # Pending /\ v # Nil

\* The records Setup layer l has emitted, in order.
Records(l) ==
    LET mine == SelectSeq(logs, LAMBDA r : r.layer = l)
    IN [i \in 1..Len(mine) |-> mine[i].rec]

Sends(k) == SelectSeq(chanLog[k], LAMBDA o : o.op = "send")
Closes(k) == SelectSeq(chanLog[k], LAMBDA o : o.op = "close")

\* C1: once the function given to async has returned, its outcome channel is
\* eventually closed (in a process that lives on), and it is never closed
\* twice, also when the receiver has left the event loop on a cancelled context.
C1_ClosedEventuallyAndOnce ==
    /\ \A k \in Layers : (fRet[k] # Pending) ~> (Closed(k) \/ ~Alive)
    /\ [](\A k \in Layers : Len(Closes(k)) <= 1)

\* C2: an outcome channel carries at most one value: nothing happens on it
\* before the function returned; a nil result is followed by the close alone; a
\* failure is sent, as it is, and only then is the channel closed.
C2_SendThenClose ==
    \A k \in Layers :
        LET log == chanLog[k] IN
        /\ Len(Sends(k)) <= 1
        /\ log # <<>> => (fRet[k] # Pending \/ (k = 1 /\ panic # "no"))
        /\ (log # <<>> /\ fRet[k] = Pending) => (Len(log) = 1 /\ log[1].op = "close")
        /\ (log # <<>> /\ fRet[k] = Nil) => (Len(log) = 1 /\ log[1].op = "close")
        /\ (log # <<>> /\ Failed(fRet[k])) =>
              /\ log[1].op = "send" /\ log[1].val = fRet[k]
              /\ Len(log) <= 2
              /\ Len(log) = 2 => log[2].op = "close"

C2_Witness ==
    /\ fRet[1] \in Errs
    /\ Len(chanLog[1]) = 2
    /\ chanLog[1][1].val = fRet[1]

\* C3: the initializers of a Setup run in registration order, and none runs
\* after the first one that failed.
C3_InitializersInOrderUntilFailure ==
    /\ initRan = [i \in 1..Len(initRan) |-> i]
    /\ initFail # 0 => Len(initRan) = initFail

C3_Witness ==
    /\ initFail = 1
    /\ initRan = <<1>>
    /\ pc = "done"

\* C4: a Setup whose PostLoad failed returns that very failure value.
C4_PostLoadFailureVerbatim ==
    \A l \in Layers :
        (Failed(postLoadRet[l]) /\ setupRet[l] # Pending) => setupRet[l] = postLoadRet[l]

\* Every target of the list that has a post-load hook has had it run.
AllPostLoadsRan(cfgs) ==
    LET targets == TargetList(TRUE, cfgs)
    IN \A i \in 1..Len(targets) : HasPostLoad(targets[i]) => i \in hooked

\* C5: the configuration record is emitted only when the post-load hook of
\* every target of the load list (the core config, the application, each
\* caller config that has one) has run.
C5_ConfigRecordAfterPostLoads ==
    [][(Len(logs') > Len(logs) /\ logs'[Len(logs')].rec = "config")
         => AllPostLoadsRan(preRunE.layers[layer])]_vars

C5_Witness ==
    /\ Len(preRunE.layers) = 2
    /\ preRunE.layers[2] = <<"hooked", "plain">>
    /\ Records(2) = <<"version", "config">>

\* C6: a Setup that returned nil has emitted the version record and then the
\* configuration record, nothing else; a Setup that returned a failure has
\* emitted nothing; and no record exists before loadConfigs has returned nil.
C6_TwoRecordsOrNone ==
    \A l \in Layers :
        /\ Records(l) # <<>> => loadRet[l] = Nil
        /\ setupRet[l] = Nil => Records(l) = <<"version", "config">>
        /\ Failed(setupRet[l]) => Records(l) = <<>>

C6_Witness ==
    /\ setupRet[2] = Nil
    /\ Failed(setupRet[1])
    /\ Len(logs) = 2

\* Something of the Run phase has happened.
Dispatched ==
    \/ bodyStarts > 0
    \/ \E k \in Layers : drv[k] # "idle" \/ gor[k] # "none"

\* C7: the command body is dispatched only after every bound Setup has
\* returned nil, so after both records of each.
C7_BodyAfterSetup ==
    Dispatched =>
        /\ preRet = Nil
        /\ \A l \in 1..runE :
              setupRet[l] = Nil /\ Records(l) = <<"version", "config">>

C7_Witness ==
    /\ bodyStarts = 1
    /\ runE = 2
    /\ Len(logs) = 4

\* C8: the hook the command had is kept: it runs after every bound Setup has
\* returned nil, with the arguments PreRunE was called with, and PreRunE
\* returns its result; a failing Setup is returned and the hook does not run;
\* with no such hook PreRunE returns nil once Setup has.
C8_OriginalHookPreserved ==
    /\ origRan # <<>> =>
          /\ preRunE.orig
          /\ Len(origRan) = 1
          /\ origRan[1].args = args
          /\ \A l \in 1..runE : setupRet[l] = Nil
    /\ preRet # Pending =>
          IF \E l \in 1..runE : Failed(setupRet[l])
          THEN origRan = <<>> /\ \E l \in 1..runE : preRet = setupRet[l]
          ELSE IF preRunE.orig
          THEN origRan # <<>> /\ preRet = origRan[1].ret
          ELSE preRet = Nil

C8_Witness ==
    /\ preRunE.orig
    /\ origRan # <<>>
    /\ origRan[1].args = "b"
    /\ preRet \in Errs

\* C9: when the body starts, the configuration has been loaded once, the
\* resources constructed once, and no initializer has run twice.
C9_SetupOnce ==
    bodyStarts > 0 =>
        /\ loadCount = 1
        /\ setupCount = 1
        /\ \A i \in Inits : initCount[i] <= 1

C12_CancelReturnsCtxErr ==
    /\ cancelled ~> (~Alive \/ \A k \in 1..runE : drv[k] = "returned")
    /\ [][\A k \in Layers :
            (drv[k] # "returned" /\ drv'[k] = "returned") =>
                /\ (fRet[k] = Pending /\ panic = "no") => (cancelled /\ drvRet'[k] = CtxErr)
                /\ gor'[k] = gor[k]
                /\ fRet'[k] = fRet[k]]_vars

C12_Witness ==
    /\ bodyOutlived
    /\ drvRet[1] = CtxErr
    /\ fRet[1] = Nil
    /\ gor[1] = "exited"
\* C13: at every exit of a driver (its return, or the end of the process on a
\* panic of the command body) a profiling session the development
\* configuration asks for has been started and stopped, and no session exists
\* when it asks for none.
C13_SessionStoppedOnEveryExit ==
    \A k \in Layers :
        /\ drv[k] = "returned" =>
              prof[k] = (IF ProfileSession(dev) = "started" THEN "stopped" ELSE "off")
        /\ ~Alive => prof[k] # "started"
        /\ ProfileSession(dev) = "off" => prof[k] = "off"
\* C14: when the loader has failed in a Setup, that Setup returns the fixed
\* prefix followed by the loader's failure text and has emitted no record, and
\* the loader has been called once for each Setup invoked so far.
C14_LoadFailurePrefixed ==
    \A l \in Layers :
        Failed(loaderRet[l]) =>
            /\ loadRet[l] = <<"invalid application config: ">> \o loaderRet[l]
            /\ setupRet[l] # Pending => setupRet[l] = loadRet[l]
            /\ Records(l) = <<>>
            /\ loadCount = runE - l + 1

C14_Witness ==
    /\ runE = 2
    /\ loaderRet[1] = <<"e2">>
    /\ setupRet[1] = <<"invalid application config: ", "e2">>
    /\ loadCount = 2
    /\ Len(logs) = 2
    /\ pc = "done"
\* C15: an initializer runs only in a Setup whose state.setup has returned
\* nil, on constructed resources; a Setup whose state.setup failed has run no
\* initializer.
C15_InitializersAfterResources ==
    /\ [][initCount' # initCount => (stateRet[layer] = Nil /\ resources)]_vars
    /\ [](\A l \in Layers : (Failed(stateRet[l]) /\ layer = l) => initRan = <<>>)

C15_Witness ==
    /\ runE = 2
    /\ stateRet[2] = Nil
    /\ Failed(stateRet[1])
    /\ initCount = [i \in Inits |-> 1]
    /\ initRan = <<>>
    /\ pc = "done"
\* The objects that contribute to the record: the non-nil ones whose trimmed
\* rendering is neither empty nor "{}".
Contributing(cfgs) ==
    SelectSeq(cfgs, LAMBDA c :
        /\ c.kind # "nil"
        /\ TrimSpace(Rendering(c)) # <<>>
        /\ TrimSpace(Rendering(c)) # <<"{", "}">>)

\* The indented trimmed renderings of the objects, one after the other, each
\* on lines of its own.
RECURSIVE Block(_)
Block(cfgs) ==
    IF cfgs = <<>> THEN <<>>
    ELSE IndentString(<<" ", " ">>, TrimSpace(Rendering(Head(cfgs))))
         \o (IF Tail(cfgs) = <<>> THEN <<>> ELSE <<"\n">> \o Block(Tail(cfgs)))

\* C16: the record logConfiguration emits holds, in the order of the list,
\* the renderings of exactly the non-nil objects whose trimmed rendering is
\* neither empty nor "{}"; when there is none it is the "(none)" placeholder.
C16_RecordHoldsContributingRenderings ==
    logRecord # NoRecord =>
        IF Contributing(logCfgs) = <<>>
        THEN logRecord.msg = <<"config: (none)">>
        ELSE logRecord.msg = <<"config:", "\n">> \o Magenta(Block(Contributing(logCfgs)))

C16_Witness ==
    /\ logCfgs = <<Str("yaml", <<"{", "}", "\n">>), Str("yaml", <<"a", "\n", " ", "b", "\n">>)>>
    /\ logRecord.msg = <<"config:", "\n", "ESC[35m", " ", " ", "a", "\n", " ", " ", " ", "b",
                         "ESC[0m">>
\* C17: the list handed to the loader is the core config, the application,
\* then the caller's objects in their order without the nil ones; so whenever
\* the post-load hook of a caller's object has run, the application's has.
C17_TargetOrder ==
    allConfigs # <<>> =>
        /\ allConfigs = <<CoreCfg, AppCfg>>
                           \o SelectSeq(preRunE.layers[layer], LAMBDA c : c # NilCfg)
        /\ \A i \in hooked : i >= 3 => 2 \in hooked

C17_Witness ==
    /\ allConfigs = <<CoreCfg, AppCfg, "hooked">>
    /\ preRunE.layers[layer] = <<NilCfg, "hooked">>
    /\ hooked = {1, 2, 3}
\* C18: SetupRootCommand copies the defaults into State, then runs the
\* post-construct hooks in registration order, then binds the command; and
\* whatever is written through State's configuration, by a hook or later, the
\* defaults of the setupConfig stay what they were.
C18_DefaultsKeptHooksInOrder ==
    /\ setupConfig.DefaultLoggingConfig = DefaultLoggingConfig
    /\ setupConfig.DefaultDevelopmentConfig = DefaultDevelopmentConfig
    /\ rootLog # <<>> =>
          LET n == Len(setupConfig.postConstructs) IN
          /\ Len(rootLog) = n + 2
          /\ rootLog[1].op = "cp"
          /\ \A i \in 1..n : /\ rootLog[i + 1].op = "postConstruct"
                              /\ rootLog[i + 1].hook = setupConfig.postConstructs[i]
          /\ rootLog[n + 2].op = "setupCommand"

C18_Witness ==
    /\ setupConfig.postConstructs = <<"profileCPU", "logDebug">>
    /\ Len(rootLog) = 4
    /\ dev = "cpu"
    /\ stateLog = "debug"
    /\ setupConfig.DefaultDevelopmentConfig = "none"
    /\ setupConfig.DefaultLoggingConfig = "info"
    /\ runE = 1
\* C19: while the command body is running, the thread of a driver reads
\* nothing of State but the subscription and the UIs.
C19_DriverReadsOnlySubscriptionAndUIs ==
    \A k \in Layers : gor[1] = "f" => DriverReads(k) \subseteq {"Subscription", "UIs"}

\* C20: when the development configuration asks for profiling, the command
\* body does not start before the session of the wrapper that calls it.
C20_SessionStartedBeforeBody ==
    (bodyStarts > 0 /\ ProfileSession(dev) = "started") => prof[1] # "off"
====
